---------------------------- MODULE Spec2Model ----------------------------
(***************************************************************************)
(* ZetaClientWrapper (src/zeta-api.js): the order-construction and         *)
(* transaction-submission pipeline.                                        *)
(*                                                                         *)
(* The asynchronous methods are modelled as state machines whose steps are *)
(* the stretches of synchronous code between two awaits; the external      *)
(* collaborators (RPC connection, exchange SDK, fee feed, redis) answer    *)
(* nondeterministically, with success or with a thrown error.              *)
(***************************************************************************)
EXTENDS Integers, Sequences, FiniteSets, TLC

VARIABLES
    pc,           \* where the running asynchronous method is suspended
    maxRetries,   \* processTransactionWithRetry: parameter
    retryDelay,   \* processTransactionWithRetry: parameter
    attempt,      \* processTransactionWithRetry: loop variable
    transaction,  \* the Transaction object handed to processTransactionWithRetry
    result,       \* how the running method completed: returned value or thrown error
    chainHeight,  \* the cluster: the latest finalized block
    log,          \* history: the calls made on the external collaborators, in order
    redisStore,   \* redis: the fields of the hash trading_settings
    settings,     \* what fetchSettings returned
    heliusSample, \* the fee feed: the level getHeliusPriorityFeeLevel reads after a load
    currentPriorityFee,   \* this.currentPriorityFee
    exchangePriorityFee,  \* the fee last handed to Exchange.updatePriorityFee
    direction,    \* openPositionWithTPSLVersioned: parameter
    balance,      \* the cross-margin account: its balance
    orderbook,    \* Exchange.getOrderbook: the book the SDK holds
    chainBook,    \* the cluster: the book of the market
    fetchPending, \* a forceFetchOrderbook whose promise is not yet settled
    plan          \* what calculatePricesAndSize and calculateTPSLPrices returned

retryVars == <<maxRetries, retryDelay, attempt, transaction, chainHeight>>
settingsVars == <<redisStore, settings>>
feeVars == <<heliusSample, currentPriorityFee, exchangePriorityFee>>
tradeVars == <<direction, balance, orderbook, chainBook, fetchPending, plan>>

vars == <<pc, result, log, retryVars, settingsVars, feeVars, tradeVars>>

-----------------------------------------------------------------------------
(* Bounds of the model *)

\* largest maxRetries argument tried
MaxRetriesArg == 3

\* number of blocks the cluster may finalize during one run
MaxBlocks == 2

\* longest string stored in a field of the settings hash
MaxStringLength == 2

\* number of calls of updateHeliusPriorityFees in one run
MaxFeeUpdates == 3

\* entry prices are n and n / 7 for n up to
MaxPrice == 4

-----------------------------------------------------------------------------
(* Values *)

Null == "null"
Undefined == [type |-> "undefined"]

\* the retryDelay arguments tried (the default, line 61, and another one)
RetryDelays == {100, 250}

NoResult == [kind |-> "pending"]
Returned(v) == [kind |-> "return", value |-> v]
Thrown(e) == [kind |-> "throw", error |-> e]

\* the error a rejected external call throws in attempt a
ErrorOf(what, a) == [from |-> what, attempt |-> a]

\* connection.getLatestBlockhash("finalized") at height h
LatestBlockhash(h) == [blockhash |-> <<"hash", h>>, lastValidBlockHeight |-> h]

\* the signature utils.processTransaction returns for the transaction it sent
TxidOf(tx, a) == [signed |-> tx.recentBlockhash, attempt |-> a]

-----------------------------------------------------------------------------
(* JavaScript Numbers: IEEE-754 binary64, round to nearest, ties to even.

   A finite Number x >= 0 is held as the set of the exponents of the powers
   of two that add up to it (0 is {}, 1 is {0}, 2.5 is {1, -1}): a Number is
   such a set of at most Precision consecutive binary digits.  Every value
   the pricing arithmetic of this program meets is >= 0, and the exponent
   range (overflow to Infinity, subnormals) is out of reach of the inputs. *)

\* the significand of a binary64: 53 binary digits
Precision == 53

Max(S) == CHOOSE x \in S : \A y \in S : y <= x
Min(S) == CHOOSE x \in S : \A y \in S : x <= y

Shift(S, n) == {k + n : k \in S}

\* Digit-serial arithmetic: the digits lo..hi of a sum, difference or product
\* with the carry that enters position lo, as <<digits, carry out of hi>>.  The
\* range is halved rather than walked, the carry passing from the low half to
\* the high half.

\* S + T + carry
RECURSIVE AddRange(_, _, _, _, _)
AddRange(S, T, lo, hi, c) ==
    IF lo = hi
    THEN LET n == (IF lo \in S THEN 1 ELSE 0) + (IF lo \in T THEN 1 ELSE 0) + c
         IN <<IF n % 2 = 1 THEN {lo} ELSE {}, n \div 2>>
    ELSE LET mid == (lo + hi) \div 2
             low == AddRange(S, T, lo, mid, c)
             high == AddRange(S, T, mid + 1, hi, low[2])
         IN <<low[1] \cup high[1], high[2]>>

\* S + T, exactly
ExactAdd(S, T) ==
    IF S = {} THEN T
    ELSE IF T = {} THEN S
    ELSE LET hi == Max(S \cup T)
             sum == AddRange(S, T, Min(S \cup T), hi, 0)
         IN IF sum[2] = 1 THEN sum[1] \cup {hi + 1} ELSE sum[1]

\* S + 2^k, exactly
AddBit(S, k) == ExactAdd(S, {k})

\* S - T - borrow
RECURSIVE SubRange(_, _, _, _, _)
SubRange(S, T, lo, hi, c) ==
    IF lo = hi
    THEN LET n == (IF lo \in S THEN 1 ELSE 0) - (IF lo \in T THEN 1 ELSE 0) - c
         IN <<IF n % 2 = 1 THEN {lo} ELSE {}, IF n < 0 THEN 1 ELSE 0>>
    ELSE LET mid == (lo + hi) \div 2
             low == SubRange(S, T, lo, mid, c)
             high == SubRange(S, T, mid + 1, hi, low[2])
         IN <<low[1] \cup high[1], high[2]>>

\* S - T, exactly, for S >= T
ExactSub(S, T) ==
    IF T = {} THEN S
    ELSE SubRange(S, T, Min(S \cup T), Max(S), 0)[1]

\* the number of pairs of digits of S and T whose product is 2^p
Column(S, T, p) == Cardinality({i \in S : (p - i) \in T})

\* S * T + carry
RECURSIVE MulRange(_, _, _, _, _)
MulRange(S, T, lo, hi, c) ==
    IF lo = hi
    THEN LET n == Column(S, T, lo) + c
         IN <<IF n % 2 = 1 THEN {lo} ELSE {}, n \div 2>>
    ELSE LET mid == (lo + hi) \div 2
             low == MulRange(S, T, lo, mid, c)
             high == MulRange(S, T, mid + 1, hi, low[2])
         IN <<low[1] \cup high[1], high[2]>>

\* S * T, exactly (the carry out of the top column is less than 2^6)
ExactMul(S, T) ==
    IF S = {} \/ T = {} THEN {}
    ELSE LET hi == Max(S) + Max(T)
             prod == MulRange(S, T, Min(S) + Min(T), hi, 0)
         IN prod[1] \cup Shift({k \in 0..5 : (prod[2] \div (2 ^ k)) % 2 = 1}, hi + 1)

\* S < T
Less(S, T) == S # T /\ Max((S \ T) \cup (T \ S)) \in T

Leq(S, T) == S = T \/ Less(S, T)

\* the Number nearest to the exact value S, ties to the even significand
RoundNearestEven(S) ==
    IF S = {} THEN {}
    ELSE LET cut == Max(S) - Precision
             kept == {k \in S : k > cut}
             up == /\ cut \in S
                   /\ \/ \E k \in S : k < cut
                      \/ (cut + 1) \in S
         IN IF up THEN AddBit(kept, cut + 1) ELSE kept

\* the operators +, -, * and / of the language on Numbers (a >= b for a - b)
FAdd(a, b) == RoundNearestEven(ExactAdd(a, b))
FSub(a, b) == RoundNearestEven(ExactSub(a, b))
FMul(a, b) == RoundNearestEven(ExactMul(a, b))

\* long division: the binary digits hi, hi-1, .., lo of R / b, as
\* <<digits, what is left of R>>
RECURSIVE DivRange(_, _, _, _)
DivRange(R, b, hi, lo) ==
    IF lo = hi
    THEN LET d == Shift(b, hi)
         IN IF Leq(d, R) THEN <<{hi}, ExactSub(R, d)>> ELSE <<{}, R>>
    ELSE LET mid == (lo + hi) \div 2
             high == DivRange(R, b, hi, mid + 1)
             low == DivRange(high[2], b, mid, lo)
         IN <<high[1] \cup low[1], low[2]>>

\* a / b: Precision + 1 digits of the quotient and more, and a last digit that
\* stands for the remainder
FDiv(a, b) ==
    IF a = {} THEN {}
    ELSE LET hi == Max(a) - Max(b)
             lo == hi - Precision - 1
             qr == DivRange(a, b, hi, lo)
             sticky == IF qr[2] = {} THEN {} ELSE {lo - 1}
         IN RoundNearestEven(qr[1] \cup sticky)

\* a non-negative integer n < 2^31 as a Number, and back
FromInt(n) == {k \in 0..30 : (n \div (2 ^ k)) % 2 = 1}

RECURSIVE ToInt(_)
ToInt(S) == IF S = {} THEN 0 ELSE LET k == Max(S) IN 2 ^ k + ToInt(S \ {k})

\* the integer part of the exact value S
Floor(S) == {k \in S : k >= 0}

-----------------------------------------------------------------------------
(* Strings and parseFloat *)

\* what parseFloat returns: NaN, or a finite Number
NaN == [nan |-> TRUE, value |-> {}]
Finite(x) == [nan |-> FALSE, value |-> x]

\* a property of the object hgetall returns: the stored string, or undefined
\* for a field the hash does not hold
Missing == [present |-> FALSE, string |-> <<>>]
Stored(str) == [present |-> TRUE, string |-> str]

\* the characters the stored strings are made of
Chars == {"0", "7", ".", "x"}

RECURSIVE StringsUpTo(_)
StringsUpTo(n) ==
    IF n = 0 THEN {<<>>}
    ELSE LET shorter == StringsUpTo(n - 1)
         IN shorter \cup {Append(t, c) : t \in {u \in shorter : Len(u) = n - 1}, c \in Chars}

DecimalDigits == <<"0", "1", "2", "3", "4", "5", "6", "7", "8", "9">>

IsDigit(c) == \E i \in DOMAIN DecimalDigits : DecimalDigits[i] = c

DigitValue(c) == (CHOOSE i \in DOMAIN DecimalDigits : DecimalDigits[i] = c) - 1

\* how many decimal digits the string s holds in a row from position from on
DigitRun(s, from) ==
    Max({n \in 0..(Len(s) + 1 - from) : \A i \in from..(from + n - 1) : IsDigit(s[i])})

\* the integer a string of decimal digits denotes
RECURSIVE DigitsValue(_)
DigitsValue(ds) ==
    IF ds = <<>> THEN 0
    ELSE 10 * DigitsValue(SubSeq(ds, 1, Len(ds) - 1)) + DigitValue(ds[Len(ds)])

\* String(v): the string parseFloat makes of its argument
StringOf(v) ==
    IF v.present THEN v.string ELSE <<"u", "n", "d", "e", "f", "i", "n", "e", "d">>

\* parseFloat(v): the Number of the longest prefix of the string that is a
\* decimal literal (digits, then optionally a point and digits; or a point
\* and digits), NaN when there is none.  The literal digits.digits is the
\* Number nearest to (digits digits) / 10^(digits after the point).
ParseFloat(v) ==
    LET s == StringOf(v)
        intLen == DigitRun(s, 1)
        hasPoint == intLen < Len(s) /\ s[intLen + 1] = "."
        fracLen == IF hasPoint THEN DigitRun(s, intLen + 2) ELSE 0
        digits == SubSeq(s, 1, intLen) \o SubSeq(s, intLen + 2, intLen + 1 + fracLen)
    IN IF intLen = 0 /\ fracLen = 0 THEN NaN
       ELSE Finite(FDiv(FromInt(DigitsValue(digits)), FromInt(10 ^ fracLen)))

\* a || b for what parseFloat returned: b when a is NaN or 0
OrElse(a, b) == IF a.nan \/ a.value = {} THEN b ELSE a.value

-----------------------------------------------------------------------------
(* fetchSettings, lines 254-270 *)

Fields == {"leverageMultiplier", "takeProfitPercentage", "stopLossPercentage"}

\* lines 258-260 and 265-267: 8, 0.0018 and 0.022
DefaultSettings ==
    [leverageMultiplier |-> FromInt(8),
     takeProfitPercentage |-> FDiv(FromInt(18), FromInt(10000)),
     stopLossPercentage |-> FDiv(FromInt(22), FromInt(1000))]

\* lines 257-261: the object built from what hgetall returned
SettingsFrom(redisSettings) ==
    [f \in Fields |-> OrElse(ParseFloat(redisSettings[f]), DefaultSettings[f])]

\* line 256 resolves: lines 257-261
HgetallResolves(next) ==
    /\ pc = "hgetall"
    /\ settings' = SettingsFrom(redisStore)
    /\ log' = Append(log, [ev |-> "hgetall", ok |-> TRUE])
    /\ pc' = next

\* line 256 rejects: lines 262-268
HgetallRejects(next) ==
    /\ pc = "hgetall"
    /\ settings' = DefaultSettings
    /\ log' = Append(log, [ev |-> "hgetall", ok |-> FALSE])
    /\ pc' = next

-----------------------------------------------------------------------------
(* updateHeliusPriorityFees, lines 153-165 *)

\* line 51: this.currentPriorityFee = 10_000
InitialPriorityFee == FromInt(10000)

\* line 49: this.priorityFeeMultiplier = 1
PriorityFeeMultiplier == FromInt(1)

\* the levels the feed may report for the configured priority level:
\* 20000 and 35000.5 micro-lamports
LoadedSample == FromInt(20000)

FeeSamples == {LoadedSample, Shift(FromInt(70001), -1)}

\* lines 156-157: Math.floor(level * this.priorityFeeMultiplier)
FlooredFee(level) == Floor(FMul(level, PriorityFeeMultiplier))

\* what the history keeps of one call: the step that threw, and both fees
\* before and after the call
FeeEvent(threw, current, pushed) ==
    [ev |-> "updateFees", threw |-> threw,
     before |-> <<currentPriorityFee, exchangePriorityFee>>,
     after |-> <<current, pushed>>]

\* line 155 rejects: line 163
HeliusLoadRejects(next) ==
    /\ pc = "heliusLoad"
    /\ log' = Append(log, FeeEvent("load", currentPriorityFee, exchangePriorityFee))
    /\ pc' = next
    /\ UNCHANGED feeVars

\* line 155 resolves with a new sample, line 156 throws: line 163
HeliusLevelThrows(next) ==
    /\ pc = "heliusLoad"
    /\ \E sample \in FeeSamples : heliusSample' = sample
    /\ log' = Append(log, FeeEvent("getHeliusPriorityFeeLevel",
                                   currentPriorityFee, exchangePriorityFee))
    /\ pc' = next
    /\ UNCHANGED <<currentPriorityFee, exchangePriorityFee>>

\* lines 155-158 run, line 160 throws: line 163
HeliusPushThrows(next) ==
    /\ pc = "heliusLoad"
    /\ \E sample \in FeeSamples :
          /\ heliusSample' = sample
          /\ currentPriorityFee' = FlooredFee(sample)
    /\ log' = Append(log, FeeEvent("updatePriorityFee",
                                   currentPriorityFee', exchangePriorityFee))
    /\ pc' = next
    /\ UNCHANGED exchangePriorityFee

\* lines 155-160 run
HeliusUpdateDone(next) ==
    /\ pc = "heliusLoad"
    /\ \E sample \in FeeSamples :
          /\ heliusSample' = sample
          /\ currentPriorityFee' = FlooredFee(sample)
    /\ exchangePriorityFee' = currentPriorityFee'
    /\ log' = Append(log, FeeEvent("nothing", currentPriorityFee', exchangePriorityFee'))
    /\ pc' = next

\* lines 142-149: the subscriber polls the feed on its own timer and keeps the
\* sample to itself
SubscriberPolls ==
    /\ \E sample \in FeeSamples : heliusSample' = sample
    /\ heliusSample' # heliusSample
    /\ UNCHANGED <<pc, result, log, retryVars, settingsVars, tradeVars,
                   currentPriorityFee, exchangePriorityFee>>

-----------------------------------------------------------------------------
(* calculateTPSLPrices, lines 283-309 *)

\* line 300: the literal 0.9
NineTenths == FDiv(FromInt(9), FromInt(10))

\* lines 287-289
TakeProfitPrice(isLong, price, takeProfitPercentage) ==
    IF isLong
    THEN FAdd(price, FMul(price, takeProfitPercentage))
    ELSE FSub(price, FMul(price, takeProfitPercentage))

\* lines 291-293
TakeProfitTrigger(isLong, price, takeProfitPrice) ==
    IF isLong
    THEN FAdd(price, FDiv(FSub(takeProfitPrice, price), FromInt(2)))
    ELSE FSub(price, FDiv(FSub(price, takeProfitPrice), FromInt(2)))

\* lines 295-297
StopLossPrice(isLong, price, stopLossPercentage) ==
    IF isLong
    THEN FSub(price, FMul(price, stopLossPercentage))
    ELSE FAdd(price, FMul(price, stopLossPercentage))

\* the stop-loss trigger put on the stop-loss price itself
StopLossTrigger_atStopLoss(isLong, price, stopLossPrice) == stopLossPrice

\* lines 299-301
StopLossTrigger(isLong, price, stopLossPrice) ==
    IF isLong
    THEN FSub(price, FMul(FSub(price, stopLossPrice), NineTenths))
    ELSE FAdd(price, FMul(FSub(stopLossPrice, price), NineTenths))

\* lines 283-309
CalculateTPSLPrices(dir, price, s) ==
    LET isLong == dir = "long"
        takeProfitPrice == TakeProfitPrice(isLong, price, s.takeProfitPercentage)
        stopLossPrice == StopLossPrice(isLong, price, s.stopLossPercentage)
    IN [takeProfitPrice |-> takeProfitPrice,
        takeProfitTrigger |-> TakeProfitTrigger(isLong, price, takeProfitPrice),
        stopLossPrice |-> stopLossPrice,
        stopLossTrigger |-> StopLossTrigger(isLong, price, stopLossPrice)]

-----------------------------------------------------------------------------
(* calculatePricesAndSize, lines 311-330 *)

\* line 114: types.Side.BID for a long, types.Side.ASK otherwise
SideOf(dir) == IF dir = "long" THEN "BID" ELSE "ASK"

\* line 318: the literal 0.00005
Slippage == FDiv(FromInt(5), FromInt(100000))

\* line 317
CurrentPrice(side, book) == IF side = "BID" THEN book.ask ELSE book.bid

\* lines 319-321
AdjustedPrice(side, currentPrice) ==
    IF side = "BID"
    THEN FMul(currentPrice, FAdd(FromInt(1), Slippage))
    ELSE FMul(currentPrice, FSub(FromInt(1), Slippage))

\* line 324
PositionSize(bal, leverageMultiplier, currentPrice) ==
    FDiv(FMul(bal, leverageMultiplier), currentPrice)

\* x.toFixed(1), as the number of tenths it writes: the integer n for which
\* n / 10 - x is as close to zero as possible, the larger n of two
ToFixed1(x) == ToInt(Floor(ExactAdd(ExactAdd(Shift(x, 3), Shift(x, 1)), {-1})))

\* lines 316-329, on the book the SDK holds
CalculatePricesAndSize(side, book, bal, s) ==
    LET currentPrice == CurrentPrice(side, book)
        positionSize == PositionSize(bal, s.leverageMultiplier, currentPrice)
    IN [currentPrice |-> currentPrice,
        adjustedPrice |-> AdjustedPrice(side, currentPrice),
        positionSize |-> positionSize,
        nativeLotSize |-> [tenths |-> ToFixed1(positionSize)]]

-----------------------------------------------------------------------------
(* processTransactionWithRetry, lines 61-100 *)

\* line 62: the loop condition of  for (attempt = 1; attempt <= maxRetries; attempt++)
LoopContinues(a, m) == a <= m

\* the last-attempt test one attempt early
IsFinalAttempt_early(a, m) == a = m - 1

\* line 92: the catch block's test for the last attempt
IsFinalAttempt(a, m) == a = m

\* only the first blockhash is stamped, later attempts keep it
Stamp_onlyFirst(tx, fetched) ==
    IF tx.recentBlockhash = Null
    THEN [tx EXCEPT !.recentBlockhash = fetched.blockhash,
                    !.lastValidBlockHeight = fetched.lastValidBlockHeight]
    ELSE tx

\* a retry adds the stop-loss instruction once more
Stamp_addsAgain(tx, fetched) ==
    [tx EXCEPT !.recentBlockhash = fetched.blockhash,
               !.lastValidBlockHeight = fetched.lastValidBlockHeight,
               !.instructions = IF tx.recentBlockhash = Null THEN @
                                ELSE Append(@, @[Len(@)])]

\* lines 70-71: the transaction stamped with the fetched blockhash
Stamp(tx, fetched) ==
    [tx EXCEPT !.recentBlockhash = fetched.blockhash,
               !.lastValidBlockHeight = fetched.lastValidBlockHeight]

\* line 62: entering the loop body, or falling out of the loop (line 100: the
\* method ends without a return statement, the promise resolves to undefined)
LoopHead(a, m) ==
    IF LoopContinues(a, m)
    THEN /\ pc' = "getLatestBlockhash"
         /\ result' = result
    ELSE /\ pc' = "done"
         /\ result' = Returned(Undefined)

\* lines 91-98: the catch block, entered with the error of the current attempt
Catch(error) ==
    IF IsFinalAttempt(attempt, maxRetries)
    THEN /\ pc' = "done"
         /\ result' = Thrown(error)
    ELSE /\ pc' = "sleep"
         /\ result' = result

\* line 61: the call, with its arguments
CallProcessTransactionWithRetry ==
    /\ pc = "call"
    /\ \E m \in 0..MaxRetriesArg, d \in RetryDelays :
          /\ maxRetries' = m
          /\ retryDelay' = d
          /\ LoopHead(1, m)
    /\ attempt' = 1
    /\ UNCHANGED <<transaction, chainHeight, log, settingsVars, feeVars, tradeVars>>

\* lines 65-73: the blockhash arrives, the transaction is stamped and handed to
\* utils.processTransaction
GetLatestBlockhashResolves ==
    /\ pc = "getLatestBlockhash"
    /\ LET fetched == LatestBlockhash(chainHeight)
           tx == Stamp(transaction, fetched)
       IN /\ transaction' = tx
          /\ log' = log \o << [ev |-> "fetch", attempt |-> attempt, ok |-> TRUE,
                               fetched |-> fetched],
                              [ev |-> "submit", attempt |-> attempt, tx |-> tx,
                               fee |-> exchangePriorityFee] >>
    /\ pc' = "processTransaction"
    /\ UNCHANGED <<maxRetries, retryDelay, attempt, result, chainHeight,
                   settingsVars, feeVars, tradeVars>>

\* line 65 throws: lines 91-98
GetLatestBlockhashRejects ==
    /\ pc = "getLatestBlockhash"
    /\ log' = Append(log, [ev |-> "fetch", attempt |-> attempt, ok |-> FALSE])
    /\ Catch(ErrorOf("getLatestBlockhash", attempt))
    /\ UNCHANGED <<maxRetries, retryDelay, attempt, transaction, chainHeight,
                   settingsVars, feeVars, tradeVars>>

\* the submission succeeds but the loop goes on instead of returning
ProcessTransactionResolves_noReturn ==
    /\ pc = "processTransaction"
    /\ log' = Append(log, [ev |-> "submitted", attempt |-> attempt, ok |-> TRUE])
    /\ attempt' = attempt + 1
    /\ LoopHead(attempt + 1, maxRetries)
    /\ UNCHANGED <<maxRetries, retryDelay, transaction, chainHeight,
                   settingsVars, feeVars, tradeVars>>

\* lines 73-89: the submission succeeds, its txid is returned
ProcessTransactionResolves ==
    /\ pc = "processTransaction"
    /\ pc' = "done"
    /\ result' = Returned(TxidOf(transaction, attempt))
    /\ log' = Append(log, [ev |-> "submitted", attempt |-> attempt, ok |-> TRUE])
    /\ UNCHANGED <<maxRetries, retryDelay, attempt, transaction, chainHeight,
                   settingsVars, feeVars, tradeVars>>

\* line 73 throws: lines 91-98
ProcessTransactionRejects ==
    /\ pc = "processTransaction"
    /\ log' = Append(log, [ev |-> "submitted", attempt |-> attempt, ok |-> FALSE])
    /\ Catch(ErrorOf("processTransaction", attempt))
    /\ UNCHANGED <<maxRetries, retryDelay, attempt, transaction, chainHeight,
                   settingsVars, feeVars, tradeVars>>

\* line 97, then line 62: the timer fires, attempt++ and the loop condition
SleepElapses ==
    /\ pc = "sleep"
    /\ log' = Append(log, [ev |-> "sleep", attempt |-> attempt, ms |-> retryDelay])
    /\ attempt' = attempt + 1
    /\ LoopHead(attempt + 1, maxRetries)
    /\ UNCHANGED <<maxRetries, retryDelay, transaction, chainHeight,
                   settingsVars, feeVars, tradeVars>>

\* the cluster finalizes a block while the method is suspended
NewBlock ==
    /\ pc \in {"getLatestBlockhash", "processTransaction", "sleep"}
    /\ chainHeight < MaxBlocks
    /\ chainHeight' = chainHeight + 1
    /\ UNCHANGED <<pc, maxRetries, retryDelay, attempt, transaction, result, log,
                   settingsVars, feeVars, tradeVars>>

RetryStep ==
    \/ GetLatestBlockhashResolves
    \/ GetLatestBlockhashRejects
    \/ ProcessTransactionResolves
    \/ ProcessTransactionRejects
    \/ SleepElapses

-----------------------------------------------------------------------------
(* processTransactionWithRetry on its own *)

\* the parts of the wrapper a method does not touch
NoSettings == redisStore = Null /\ settings = Null
NoFees == heliusSample = Null /\ currentPriorityFee = Null /\ exchangePriorityFee = Null
NoTrade ==
    /\ direction = Null
    /\ balance = Null
    /\ orderbook = Null
    /\ chainBook = Null
    /\ fetchPending = FALSE
    /\ plan = Null

SampleTransaction ==
    [instructions |-> <<"main", "tp", "sl">>,
     recentBlockhash |-> Null, lastValidBlockHeight |-> Null]

InitRetry ==
    /\ pc = "call"
    /\ maxRetries = Null
    /\ retryDelay = Null
    /\ attempt = 0
    /\ transaction = SampleTransaction
    /\ result = NoResult
    /\ chainHeight = 0
    /\ log = <<>>
    /\ NoSettings
    /\ NoFees
    /\ NoTrade

NextRetry ==
    \/ CallProcessTransactionWithRetry
    \/ RetryStep
    \/ NewBlock

SpecRetry == InitRetry /\ [][NextRetry]_vars

-----------------------------------------------------------------------------
(* fetchSettings on its own: any stored strings, redis reachable or not *)

InitSettings ==
    /\ pc = "hgetall"
    /\ redisStore \in [Fields -> {Stored(str) : str \in StringsUpTo(MaxStringLength)}
                                     \cup {Missing}]
    /\ settings = Null
    /\ result = NoResult
    /\ log = <<>>
    /\ maxRetries = Null /\ retryDelay = Null /\ attempt = 0
    /\ transaction = Null /\ chainHeight = 0
    /\ NoFees
    /\ NoTrade

\* line 257 or 264: fetchSettings returns
FetchSettingsReturns ==
    /\ HgetallResolves("done")
    /\ result' = Returned(settings')
    /\ UNCHANGED <<redisStore, retryVars, feeVars, tradeVars>>

FetchSettingsReturnsDefaults ==
    /\ HgetallRejects("done")
    /\ result' = Returned(settings')
    /\ UNCHANGED <<redisStore, retryVars, feeVars, tradeVars>>

NextSettings ==
    \/ FetchSettingsReturns
    \/ FetchSettingsReturnsDefaults

SpecSettings == InitSettings /\ [][NextSettings]_vars

-----------------------------------------------------------------------------
(* updateHeliusPriorityFees on its own, called again and again *)

\* after the constructor and Exchange.load: no fee was handed to the exchange yet
InitFee ==
    /\ pc = "idle"
    /\ heliusSample \in FeeSamples
    /\ currentPriorityFee = InitialPriorityFee
    /\ exchangePriorityFee = {}
    /\ result = NoResult
    /\ log = <<>>
    /\ maxRetries = Null /\ retryDelay = Null /\ attempt = 0
    /\ transaction = Null /\ chainHeight = 0
    /\ NoSettings
    /\ NoTrade

\* line 153: the call
CallUpdateHeliusPriorityFees ==
    /\ pc = "idle"
    /\ Len(log) < MaxFeeUpdates
    /\ pc' = "heliusLoad"
    /\ result' = NoResult
    /\ UNCHANGED <<log, retryVars, settingsVars, feeVars, tradeVars>>

\* line 165: the method returns, whatever happened
UpdateFeesLoadRejects ==
    /\ HeliusLoadRejects("idle")
    /\ result' = Returned(Undefined)
    /\ UNCHANGED <<retryVars, settingsVars, tradeVars>>

UpdateFeesLevelThrows ==
    /\ HeliusLevelThrows("idle")
    /\ result' = Returned(Undefined)
    /\ UNCHANGED <<retryVars, settingsVars, tradeVars>>

UpdateFeesPushThrows ==
    /\ HeliusPushThrows("idle")
    /\ result' = Returned(Undefined)
    /\ UNCHANGED <<retryVars, settingsVars, tradeVars>>

UpdateFeesDone ==
    /\ HeliusUpdateDone("idle")
    /\ result' = Returned(Undefined)
    /\ UNCHANGED <<retryVars, settingsVars, tradeVars>>

NextFee ==
    \/ CallUpdateHeliusPriorityFees
    \/ UpdateFeesLoadRejects
    \/ UpdateFeesLevelThrows
    \/ UpdateFeesPushThrows
    \/ UpdateFeesDone
    \/ SubscriberPolls

SpecFee == InitFee /\ [][NextFee]_vars

-----------------------------------------------------------------------------
(* The instructions of the bundle, lines 332-403 *)

\* utils.convertDecimalToNativeInteger: the SDK's fixed-point price
ConvertDecimalToNativeInteger(x) == [decimal |-> x]

NoTrigger == <<>>

\* lines 332-343
CreateMainOrderInstruction(adjustedPrice, nativeLotSize, side) ==
    [ix |-> "placePerpOrder",
     price |-> ConvertDecimalToNativeInteger(adjustedPrice),
     size |-> nativeLotSize,
     side |-> side,
     reduceOnly |-> FALSE,
     trigger |-> NoTrigger]

\* lines 345-361: a plain reduce-only limit order, takeProfitTrigger is not used
CreateTPLimitOrderInstruction(dir, takeProfitPrice, takeProfitTrigger, nativeLotSize) ==
    [ix |-> "placePerpOrder",
     price |-> ConvertDecimalToNativeInteger(takeProfitPrice),
     size |-> nativeLotSize,
     side |-> IF dir = "long" THEN "ASK" ELSE "BID",
     reduceOnly |-> TRUE,
     trigger |-> NoTrigger]

\* lines 384-403
CreateSLOrderInstruction(dir, stopLossPrice, stopLossTrigger, nativeLotSize, triggerOrderBit) ==
    [ix |-> "placeTriggerOrder",
     price |-> ConvertDecimalToNativeInteger(stopLossPrice),
     size |-> nativeLotSize,
     side |-> IF dir = "long" THEN "ASK" ELSE "BID",
     reduceOnly |-> TRUE,
     trigger |-> << [price |-> ConvertDecimalToNativeInteger(stopLossTrigger),
                     direction |-> IF dir = "long" THEN "LESSTHANOREQUAL"
                                                   ELSE "GREATERTHANOREQUAL",
                     triggerOrderBit |-> triggerOrderBit] >>]

\* line 127: the trigger slot openPositionWithTPSLVersioned passes for the
\* stop-loss leg
StopLossSlotArgument == 0

-----------------------------------------------------------------------------
(* openPositionWithTPSLVersioned, lines 102-138 *)

\* line 61: the defaults of maxRetries and retryDelay
DefaultMaxRetries == 3
DefaultRetryDelay == 100

\* the balances the margin account may hold after client.updateState
Balances == {FromInt(1000), FromInt(999)}

\* best ask and best bid of the order books the market may have, the first
\* the one the SDK holds after Exchange.load
LoadedBook == [ask |-> FromInt(100), bid |-> FDiv(FromInt(999), FromInt(10))]

Books == {LoadedBook, [ask |-> FromInt(101), bid |-> FromInt(100)]}

\* the settings hashes redis may hold for the trade
TradeStores ==
    {[f \in Fields |-> Missing],
     [leverageMultiplier |-> Stored(<<"7">>),
      takeProfitPercentage |-> Stored(<<".", "7">>),
      stopLossPercentage |-> Stored(<<"0">>)]}

\* lines 129-132: new Transaction() and the three add calls
NewTransaction(mainOrderIx, tpOrderIx, slOrderIx) ==
    [instructions |-> <<mainOrderIx, tpOrderIx, slOrderIx>>,
     recentBlockhash |-> Null, lastValidBlockHeight |-> Null]

\* lines 112-132 on the book and balance read: what is computed and built
\* between the return of client.updateState and the first await of
\* processTransactionWithRetry
BuildBundle(dir, book, bal, s) ==
    LET side == SideOf(dir)
        sized == CalculatePricesAndSize(side, book, bal, s)
        tpsl == CalculateTPSLPrices(dir, sized.adjustedPrice, s)
        mainOrderIx == CreateMainOrderInstruction(sized.adjustedPrice,
                                                  sized.nativeLotSize, side)
        tpOrderIx == CreateTPLimitOrderInstruction(dir, tpsl.takeProfitPrice,
                                                   tpsl.takeProfitTrigger,
                                                   sized.nativeLotSize)
        slOrderIx == CreateSLOrderInstruction(dir, tpsl.stopLossPrice,
                                              tpsl.stopLossTrigger,
                                              sized.nativeLotSize,
                                              StopLossSlotArgument)
    IN [sized |-> sized, tpsl |-> tpsl,
        transaction |-> NewTransaction(mainOrderIx, tpOrderIx, slOrderIx)]

\* line 102: the call
CallOpenPositionWithTPSLVersioned ==
    /\ pc = "idle"
    /\ \E dir \in {"long", "short"} : direction' = dir
    /\ pc' = "hgetall"
    /\ UNCHANGED <<result, log, retryVars, settingsVars, feeVars,
                   balance, orderbook, chainBook, fetchPending, plan>>

\* line 105
TradeSettingsFetched ==
    /\ HgetallResolves("heliusLoad")
    /\ UNCHANGED <<result, redisStore, retryVars, feeVars, tradeVars>>

TradeSettingsDefaulted ==
    /\ HgetallRejects("heliusLoad")
    /\ UNCHANGED <<result, redisStore, retryVars, feeVars, tradeVars>>

\* line 108
TradeFeesLoadRejects ==
    /\ HeliusLoadRejects("updateState")
    /\ UNCHANGED <<result, retryVars, settingsVars, tradeVars>>

TradeFeesLevelThrows ==
    /\ HeliusLevelThrows("updateState")
    /\ UNCHANGED <<result, retryVars, settingsVars, tradeVars>>

TradeFeesPushThrows ==
    /\ HeliusPushThrows("updateState")
    /\ UNCHANGED <<result, retryVars, settingsVars, tradeVars>>

TradeFeesDone ==
    /\ HeliusUpdateDone("updateState")
    /\ UNCHANGED <<result, retryVars, settingsVars, tradeVars>>

\* line 110 rejects: the method throws
UpdateStateRejects ==
    /\ pc = "updateState"
    /\ pc' = "done"
    /\ result' = Thrown(ErrorOf("updateState", 0))
    /\ UNCHANGED <<log, retryVars, settingsVars, feeVars, tradeVars>>

\* line 110 resolves: lines 112-134 and 61-65 run without suspending. Line 314
\* starts the order-book fetch and does not wait for it, line 316 reads the
\* book the SDK holds, lines 118-132 build the bundle, line 134 enters
\* processTransactionWithRetry with its default arguments
UpdateStateResolves ==
    /\ pc = "updateState"
    /\ \E bal \in Balances : balance' = bal
    /\ fetchPending' = TRUE
    /\ LET built == BuildBundle(direction, orderbook, balance', settings)
       IN /\ plan' = [sized |-> built.sized, tpsl |-> built.tpsl]
          /\ transaction' = built.transaction
    /\ log' = log \o << [ev |-> "forceFetchOrderbook"],
                        [ev |-> "getOrderbook", book |-> orderbook,
                         fetchPending |-> fetchPending'] >>
    /\ maxRetries' = DefaultMaxRetries
    /\ retryDelay' = DefaultRetryDelay
    /\ attempt' = 1
    /\ LoopHead(1, DefaultMaxRetries)
    /\ UNCHANGED <<chainHeight, settingsVars, feeVars, direction, orderbook, chainBook>>

\* the fetch started at line 314 completes: the SDK replaces its book
ForceFetchOrderbookResolves ==
    /\ fetchPending
    /\ fetchPending' = FALSE
    /\ orderbook' = chainBook
    /\ UNCHANGED <<pc, result, log, retryVars, settingsVars, feeVars,
                   direction, balance, chainBook, plan>>

\* the fetch started at line 314 fails: nobody holds its promise
ForceFetchOrderbookRejects ==
    /\ fetchPending
    /\ fetchPending' = FALSE
    /\ UNCHANGED <<pc, result, log, retryVars, settingsVars, feeVars,
                   direction, balance, orderbook, chainBook, plan>>

\* the market's best prices move away from the book the SDK holds
MarketMoves ==
    /\ chainBook = orderbook
    /\ \E book \in Books : chainBook' = book
    /\ chainBook' # chainBook
    /\ UNCHANGED <<pc, result, log, retryVars, settingsVars, feeVars,
                   direction, balance, orderbook, fetchPending, plan>>

\* after initialize: the SDK holds the book it loaded, the fee feed a sample
InitTrade ==
    /\ pc = "idle"
    /\ direction = Null
    /\ balance = Null
    /\ orderbook = LoadedBook
    /\ chainBook = orderbook
    /\ fetchPending = FALSE
    /\ plan = Null
    /\ redisStore \in TradeStores
    /\ settings = Null
    /\ heliusSample = LoadedSample
    /\ currentPriorityFee = InitialPriorityFee
    /\ exchangePriorityFee = {}
    /\ maxRetries = Null /\ retryDelay = Null /\ attempt = 0
    /\ transaction = Null /\ chainHeight = 0
    /\ result = NoResult
    /\ log = <<>>

NextTrade ==
    \/ CallOpenPositionWithTPSLVersioned
    \/ TradeSettingsFetched
    \/ TradeSettingsDefaulted
    \/ TradeFeesLoadRejects
    \/ TradeFeesLevelThrows
    \/ TradeFeesPushThrows
    \/ TradeFeesDone
    \/ UpdateStateRejects
    \/ UpdateStateResolves
    \/ ForceFetchOrderbookResolves
    \/ ForceFetchOrderbookRejects
    \/ MarketMoves
    \/ RetryStep
    \/ NewBlock
    \/ SubscriberPolls

SpecTrade == InitTrade /\ [][NextTrade]_vars

-----------------------------------------------------------------------------
(* calculateTPSLPrices on its own *)

Pow2(k) == {k}

\* percentages strictly between 0 and 1: the defaults, powers of two down to a
\* quarter of the spacing of doubles at 1, and the largest double below 1
Percentages ==
    {DefaultSettings.takeProfitPercentage, DefaultSettings.stopLossPercentage,
     FSub(FromInt(1), Pow2(-53))}
    \cup {Pow2(-k) : k \in {1, 26, 27, 52, 53, 54}}

\* positive entry prices
Prices == {FDiv(FromInt(n), FromInt(d)) : n \in 1..MaxPrice, d \in {1, 7}}

InitPrices ==
    /\ pc = "idle"
    /\ direction = Null
    /\ settings = Null
    /\ plan = Null
    /\ result = NoResult
    /\ log = <<>>
    /\ maxRetries = Null /\ retryDelay = Null /\ attempt = 0
    /\ transaction = Null /\ chainHeight = 0
    /\ redisStore = Null
    /\ NoFees
    /\ balance = Null /\ orderbook = Null /\ chainBook = Null /\ fetchPending = FALSE

\* lines 283-309: one call and its return
CallCalculateTPSLPrices ==
    /\ pc = "idle"
    /\ \E dir \in {"long", "short"}, price \in Prices,
          tp \in Percentages, sl \in Percentages :
          /\ direction' = dir
          /\ settings' = [DefaultSettings EXCEPT !.takeProfitPercentage = tp,
                                                 !.stopLossPercentage = sl]
          /\ plan' = [price |-> price,
                      tpsl |-> CalculateTPSLPrices(dir, price, settings')]
          /\ result' = Returned(plan'.tpsl)
    /\ pc' = "done"
    /\ UNCHANGED <<log, retryVars, redisStore, feeVars,
                   balance, orderbook, chainBook, fetchPending>>

NextPrices == CallCalculateTPSLPrices

SpecPrices == InitPrices /\ [][NextPrices]_vars

-----------------------------------------------------------------------------
(* calculatePricesAndSize on its own, on the book the SDK holds *)

SizeBalances == {FromInt(b) : b \in {250, 999, 1000, 1001}}

Leverages == {FromInt(l) : l \in {1, 2, 7, 8}}

SizeBooks ==
    Books \cup {[ask |-> FromInt(3), bid |-> FDiv(FromInt(29), FromInt(10))],
                [ask |-> FDiv(FromInt(1601), FromInt(10)), bid |-> FromInt(160)]}

InitSize ==
    /\ pc = "idle"
    /\ direction = Null
    /\ settings = Null
    /\ plan = Null
    /\ result = NoResult
    /\ log = <<>>
    /\ maxRetries = Null /\ retryDelay = Null /\ attempt = 0
    /\ transaction = Null /\ chainHeight = 0
    /\ redisStore = Null
    /\ NoFees
    /\ balance = Null /\ orderbook = Null /\ chainBook = Null /\ fetchPending = FALSE

\* lines 311-330: one call and its return
CallCalculatePricesAndSize ==
    /\ pc = "idle"
    /\ \E dir \in {"long", "short"}, book \in SizeBooks,
          bal \in SizeBalances, leverage \in Leverages :
          /\ direction' = dir
          /\ orderbook' = book
          /\ balance' = bal
          /\ settings' = [DefaultSettings EXCEPT !.leverageMultiplier = leverage]
          /\ plan' = [sized |-> CalculatePricesAndSize(SideOf(dir), book, bal, settings')]
          /\ result' = Returned(plan'.sized)
    /\ pc' = "done"
    /\ UNCHANGED <<log, retryVars, redisStore, feeVars, chainBook, fetchPending>>

NextSize == CallCalculatePricesAndSize

SpecSize == InitSize /\ [][NextSize]_vars

-----------------------------------------------------------------------------
(* What the history says about one call of processTransactionWithRetry *)

Events(ev) == {i \in DOMAIN log : log[i].ev = ev}

\* every attempt starts with the blockhash fetch of line 65
AttemptsMade == Cardinality(Events("fetch"))

SleepsMade == Cardinality(Events("sleep"))

Failures ==
    {i \in DOMAIN log : log[i].ev \in {"fetch", "submitted"} /\ ~log[i].ok}

Successes == {i \in Events("submitted") : log[i].ok}

\* the error thrown by the external call that failed at position i of the history
ErrorAt(i) ==
    ErrorOf(IF log[i].ev = "fetch" THEN "getLatestBlockhash" ELSE "processTransaction",
            log[i].attempt)

-----------------------------------------------------------------------------
(* C1: when every attempt fails and maxRetries >= 1, the call makes exactly
   maxRetries attempts (a failed blockhash fetch is a failed attempt), sleeps
   retryDelay exactly maxRetries - 1 times, never after the last failed
   attempt, and throws the error of the last attempt. *)
C1_AllAttemptsFail ==
    (pc = "done" /\ maxRetries >= 1 /\ Successes = {}) =>
        /\ AttemptsMade = maxRetries
        /\ {log[i].attempt : i \in Events("fetch")} = 1..maxRetries
        /\ Cardinality(Failures) = maxRetries
        /\ SleepsMade = maxRetries - 1
        /\ \A i \in Events("sleep") : log[i].ms = retryDelay /\ log[i].attempt < maxRetries
        /\ log[Len(log)].ev # "sleep"
        /\ result = Thrown(ErrorAt(Max(Failures)))
        /\ log[Max(Failures)].attempt = maxRetries

\* three attempts failed, one of them at the blockhash fetch, and the call threw
C1_Witness ==
    /\ pc = "done"
    /\ maxRetries = 3
    /\ result.kind = "throw"
    /\ \E i, j \in Failures : log[i].ev = "fetch" /\ log[j].ev = "submitted"

(* C2: if attempt k is the first to succeed, the call returns that attempt's
   txid at once: k attempts, k - 1 delays, nothing happens after the successful
   submission and nothing is thrown. *)
C2_FirstSuccessReturns ==
    \A i \in Successes :
        LET k == log[i].attempt
        IN /\ i = Len(log)
           /\ pc = "done"
           /\ result = Returned(TxidOf(transaction, k))
           /\ result.value.signed = log[i - 1].tx.recentBlockhash
           /\ 1 <= k /\ k <= maxRetries
           /\ AttemptsMade = k
           /\ SleepsMade = k - 1
           /\ Cardinality(Failures) = k - 1

\* the second attempt succeeded after a failed first one
C2_Witness ==
    /\ pc = "done"
    /\ result.kind = "return"
    /\ \E i \in Successes : log[i].attempt = 2

(* C3: every submission carries the blockhash and last-valid block height
   fetched in the same attempt, and an attempt whose fetch failed submits
   nothing. *)
C3_FreshBlockhash ==
    /\ \A i \in Events("submit") :
          /\ i > 1
          /\ log[i - 1].ev = "fetch"
          /\ log[i - 1].ok
          /\ log[i - 1].attempt = log[i].attempt
          /\ log[i].tx.recentBlockhash = log[i - 1].fetched.blockhash
          /\ log[i].tx.lastValidBlockHeight = log[i - 1].fetched.lastValidBlockHeight
    /\ \A i \in Events("fetch") : \A j \in Events("submit") :
          ~log[i].ok => log[j].attempt # log[i].attempt

\* a second submission, made after the cluster finalized a new block, and an
\* attempt whose fetch failed
C3_Witness ==
    /\ \E i, j \in Events("submit") :
          /\ i < j
          /\ log[i].tx.recentBlockhash # log[j].tx.recentBlockhash
    /\ \E i \in Events("fetch") : ~log[i].ok

(* C5: fetchSettings never raises; with the store unreachable it returns
   exactly {8, 0.0018, 0.022}; with the store reachable every field that is
   missing or that parseFloat cannot read is replaced by its own default, and
   every field that is present and numeric is returned with the stored
   value. *)
C5_FetchSettings ==
    pc = "done" =>
        /\ result.kind = "return"
        /\ result.value = settings
        /\ IF log[Len(log)].ok
           THEN \A f \in Fields :
                   LET stored == ParseFloat(redisStore[f])
                   IN settings[f] = IF ~redisStore[f].present \/ stored.nan
                                    THEN DefaultSettings[f]
                                    ELSE stored.value
           ELSE settings = DefaultSettings

(* C4: updateHeliusPriorityFees never raises, and when a step of it fails
   (the load, reading the level, pushing the fee to the exchange) both
   currentPriorityFee and the fee last pushed to the exchange are what they
   were before the call. *)
C4_FailedUpdateKeepsFee ==
    /\ result.kind # "throw"
    /\ \A i \in Events("updateFees") :
          log[i].threw # "nothing" => log[i].after = log[i].before

(* C6: in openPositionWithTPSLVersioned the asynchronous steps run one after
   another, each completed before the next begins; the forced order-book
   refresh of the trade has completed when calculatePricesAndSize reads the
   best ask and bid, and the book it reads is the refreshed one. *)
C6_RefreshCompletedBeforeRead ==
    \A i \in Events("getOrderbook") :
        /\ i > 1
        /\ log[i - 1].ev = "forceFetchOrderbook"
        /\ ~log[i].fetchPending

(* C7: the stop-loss trigger order of every bundle is placed in trigger slot
   1; slot 0 is used only by take-profit-style trigger orders, never by the
   stop-loss leg. *)
C7_StopLossInSlotOne ==
    \A i \in Events("submit") :
        LET stopLoss == log[i].tx.instructions[3]
        IN /\ stopLoss.ix = "placeTriggerOrder"
           /\ Len(stopLoss.trigger) = 1
           /\ stopLoss.trigger[1].triggerOrderBit = 1

\* what a retry may change of a transaction
SameBundle(tx1, tx2) ==
    tx2 = [tx1 EXCEPT !.recentBlockhash = tx2.recentBlockhash,
                      !.lastValidBlockHeight = tx2.lastValidBlockHeight]

(* C10: every submission of one trade carries the same bundle, exactly the
   three instructions main order, take-profit order, stop-loss order in that
   order in one transaction; between two submissions only recentBlockhash and
   lastValidBlockHeight differ, and the active priority fee is the same. *)
C10_SameBundleEveryAttempt ==
    \A i \in Events("submit") :
        LET tx == log[i].tx
        IN /\ Len(tx.instructions) = 3
           /\ tx.instructions[1] =
                 CreateMainOrderInstruction(plan.sized.adjustedPrice,
                                            plan.sized.nativeLotSize, SideOf(direction))
           /\ tx.instructions[2] =
                 CreateTPLimitOrderInstruction(direction, plan.tpsl.takeProfitPrice,
                                               plan.tpsl.takeProfitTrigger,
                                               plan.sized.nativeLotSize)
           /\ tx.instructions[3].ix = "placeTriggerOrder"
           /\ tx.instructions[3].price =
                 ConvertDecimalToNativeInteger(plan.tpsl.stopLossPrice)
           /\ tx.instructions[3].trigger[1].price =
                 ConvertDecimalToNativeInteger(plan.tpsl.stopLossTrigger)
           /\ log[i].fee = exchangePriorityFee
           /\ \A j \in Events("submit") :
                 /\ SameBundle(tx, log[j].tx)
                 /\ log[j].fee = log[i].fee

\* the third submission of a trade, each with another blockhash, while the fee
\* feed has moved away from the fee in effect
C10_Witness ==
    /\ direction = "short"
    /\ \E i, j, k \in Events("submit") :
          /\ log[i].attempt = 1 /\ log[j].attempt = 2 /\ log[k].attempt = 3
          /\ log[i].tx.recentBlockhash # log[j].tx.recentBlockhash
          /\ log[j].tx.recentBlockhash # log[k].tx.recentBlockhash
    /\ exchangePriorityFee # {}
    /\ FlooredFee(heliusSample) # exchangePriorityFee

\* the order of two prices that the direction asks for: better is higher for
\* a long, lower for a short
StrictlyBetter(a, b) == IF direction = "long" THEN Less(b, a) ELSE Less(a, b)
Better(a, b) == a = b \/ StrictlyBetter(a, b)

(* C8 as the specification states it: for every direction, positive entry
   price and percentages strictly between 0 and 1, the take-profit price is
   strictly better and the stop-loss price strictly worse than the entry
   price, and each trigger lies strictly between the entry price and its own
   limit price. *)
C8_StrictlyOrdered ==
    result.kind = "return" =>
        LET price == plan.price
            t == plan.tpsl
        IN /\ StrictlyBetter(t.takeProfitPrice, price)
           /\ StrictlyBetter(price, t.stopLossPrice)
           /\ StrictlyBetter(t.takeProfitTrigger, price)
           /\ StrictlyBetter(t.takeProfitPrice, t.takeProfitTrigger)
           /\ StrictlyBetter(price, t.stopLossTrigger)
           /\ StrictlyBetter(t.stopLossTrigger, t.stopLossPrice)

\* from this percentage on the products and differences of lines 287-301 are
\* many spacings of doubles wide
StrictThreshold == Pow2(-26)

(* C8: for every direction, positive entry price and percentages strictly
   between 0 and 1, the take-profit price is never worse and the stop-loss
   price never better than the entry price, and each trigger lies between the
   entry price and its own limit price, ends included; with a percentage of
   at least 2^-26 the inequalities of its leg are strict. *)
C8_Ordered ==
    result.kind = "return" =>
        LET price == plan.price
            t == plan.tpsl
        IN /\ Better(t.takeProfitPrice, t.takeProfitTrigger)
           /\ Better(t.takeProfitTrigger, price)
           /\ Better(price, t.stopLossTrigger)
           /\ Better(t.stopLossTrigger, t.stopLossPrice)
           /\ Leq(StrictThreshold, settings.takeProfitPercentage) =>
                 /\ StrictlyBetter(t.takeProfitPrice, t.takeProfitTrigger)
                 /\ StrictlyBetter(t.takeProfitTrigger, price)
           /\ Leq(StrictThreshold, settings.stopLossPercentage) =>
                 /\ StrictlyBetter(price, t.stopLossTrigger)
                 /\ StrictlyBetter(t.stopLossTrigger, t.stopLossPrice)

\* a short at the price 3/7 with the default percentages
C8_Witness ==
    /\ result.kind = "return"
    /\ direction = "short"
    /\ plan.price = FDiv(FromInt(3), FromInt(7))
    /\ settings = DefaultSettings
    /\ Less(plan.tpsl.takeProfitPrice, plan.tpsl.takeProfitTrigger)
    /\ Less(plan.tpsl.stopLossTrigger, plan.tpsl.stopLossPrice)

(* C9: the size handed to the native-lot conversion is balance *
   leverageMultiplier / currentPrice truncated to one decimal place: it is the
   largest number of tenths that does not exceed the position size. *)
C9_SizeTruncated ==
    result.kind = "return" =>
        LET tenths == FromInt(plan.sized.nativeLotSize.tenths)
            tenTimesSize == ExactMul(plan.sized.positionSize, FromInt(10))
        IN /\ Leq(tenths, tenTimesSize)
           /\ Less(tenTimesSize, ExactAdd(tenths, FromInt(1)))

(* C11: for any integer maxRetries, 0 included, and any pattern of attempt
   outcomes, a finished call of processTransactionWithRetry has made at most
   maxRetries attempts and has either returned the transaction id of a
   successful submission or thrown an error; it never completes normally
   without a transaction id. *)
C11_TxidOrError ==
    pc = "done" =>
        /\ AttemptsMade <= maxRetries
        /\ \/ result.kind = "throw"
           \/ /\ result.kind = "return"
              /\ result.value # Undefined
              /\ \E i \in Successes : result.value.attempt = log[i].attempt

=============================================================================
